---- MODULE Spec2Model ----
(***************************************************************************)
(* Device register model of the OPC UA PLC simulator: the registry         *)
(* (OPCUAServer), the devices (BaseDevice, VirtualSwitch, VirtualButton),  *)
(* their update threads, and the register client (OPCUAClient).            *)
(*                                                                         *)
(* Every store access (get_value / set_value) is one atomic step; a        *)
(* composite operation is the sequence of its store accesses, so that      *)
(* callers interleave between any two of them.                             *)
(***************************************************************************)
EXTENDS Integers, Sequences, FiniteSets, TLC

\* ------------------------------------------------------------------ bounds
\* operations invoked in one run, over all callers
MaxOps == 3
\* registry calls (add_device, start, stop) made in one run
MaxRegCalls == 4
\* direct start() / stop() calls made on a device in one run
MaxLifeCalls == 3
\* iterations one update loop makes
MaxTicks == 2

\* ------------------------------------------------------------------ names
DevNames == {"VirtualSwitch", "Button1"}

\* one thread calls the device's own methods; two clients are connected
DeviceCaller == "device"
Clients == {"client1", "client2"}
Callers == {DeviceCaller} \cup Clients

\* the execution contexts that call the registry and the devices' lifecycle:
\* the main thread, another thread, and the context of the signal handler
Contexts == {"main", "other", "signal"}

\* the contexts that configure and start the registry
Threads == {"main", "other"}

VARIABLES
    reg,        \* the OPCUAServer object: server, running, devices
    dev,        \* the device objects: cls, running, thread, count
    threads,    \* per device, the update threads created so far
    store,      \* the address space: device name -> its registers
    now,        \* the wall clock read by time.time()
    target,     \* the device the callers of this run address
    call,       \* per caller, the operation in progress and its locals
    issued,     \* the number of operations invoked so far
    started,    \* history: per operation, invocations begun
    completed,  \* history: per operation, invocations returned
    writer,     \* history: whose transition last wrote State / LastStateChange
    pre,        \* history: State and Count before each of the latest device toggles
    ctx,        \* per context, the lifecycle call in progress and its position
    regCalls,   \* the number of registry calls made so far
    lifeCalls,  \* the number of direct device start() / stop() calls made so far
    hist,       \* history: how often each lifecycle effect has happened
    faults      \* history: the number of store accesses that have failed

lifeVars == <<ctx, regCalls, lifeCalls, hist>>

vars == <<reg, dev, threads, store, now, target, call, issued,
          started, completed, writer, pre, ctx, regCalls, lifeCalls, hist,
          faults>>

\* ------------------------------------------------------------ the devices
\* VirtualSwitch._setup_nodes / VirtualButton._setup_nodes: the registers a
\* device declares, with their initial values.
Empty == [kind |-> "empty", t |-> 0]

SwitchNodes ==
    [State |-> FALSE, LastStateChange |-> Empty, Count |-> 0,
     Type |-> "Switch", Virtual |-> TRUE]

\* mutant: a Button that declares the metadata of a Switch
ButtonNodesTypedSwitch ==
    [State |-> FALSE, LastStateChange |-> Empty, Count |-> 0,
     Type |-> "Switch", Virtual |-> TRUE]

ButtonNodes ==
    [State |-> FALSE, LastStateChange |-> Empty, Count |-> 0,
     Type |-> "Button", Virtual |-> TRUE]

\* VirtualSwitch._setup_nodes of opcua-raspi.py, the autonomous switch
RaspiSwitchNodes ==
    [State |-> FALSE, Type |-> "Switch", Virtual |-> TRUE,
     LastToggleTime |-> Empty]

\* the registers _setup_nodes makes writable with set_writable()
Writable == {"State", "LastStateChange", "Count"}

\* PhysicalButton._setup_nodes of opcua-raspi.py, the simulated button
\* (gpio_available is False, so Virtual is True; main() gives pin 17)
PhysicalButtonNodes ==
    [Pressed |-> FALSE, PressCount |-> 0, Type |-> "Button", Virtual |-> TRUE,
     Pin |-> "17"]

Classes == {"VirtualSwitch", "VirtualButton", "RaspiSwitch"}

SetupNodes(cls) ==
    CASE cls = "VirtualSwitch" -> SwitchNodes
      [] cls = "VirtualButton" -> ButtonNodes
      [] cls = "RaspiSwitch" -> RaspiSwitchNodes
      [] cls = "PhysicalButton" -> PhysicalButtonNodes

\* BaseDevice.__init__ and the subclasses' __init__
NewDevice(cls) == [cls |-> cls, running |-> FALSE, thread |-> 0, count |-> 0]

\* ------------------------------------------------- composite operations
\* Each operation is the sequence of its store accesses, in program order.
toggle == <<"GetState", "SetStateNew", "SetTime", "IncCount">>

\* mutant: press counts as a client does, from the Count register
press_reading_count == <<"SetStateTrue", "SetTime", "GetCount", "PutCount">>

\* mutant: a press that leaves the counter alone
press_uncounted == <<"SetStateTrue", "SetTime">>

press == <<"SetStateTrue", "SetTime", "IncCount">>

\* get_press_count / get_switch_count: return self.press_count /
\* self.switch_count -- the local counter, no store access
get_press_count == <<>>

get_switch_count == <<>>

\* mutant: a release that counts
release_counting == <<"SetStateFalse", "SetTime", "IncCount">>

release == <<"SetStateFalse", "SetTime">>

\* mutant: the release half counts as well
press_and_release_counting_both ==
    <<"SetStateTrue", "SetTime", "IncCount", "SetStateFalse", "SetTime", "IncCount">>

press_and_release ==
    <<"SetStateTrue", "SetTime", "IncCount", "SetStateFalse", "SetTime">>

\* mutant: the client counts before it writes State and the timestamp
press_button_count_first == <<"GetCount", "PutCount", "SetStateTrue", "SetTimeStr">>

press_button == <<"SetStateTrue", "SetTimeStr", "GetCount", "PutCount">>

release_button == <<"SetStateFalse", "SetTimeStr">>

\* mutant: the press without the release that follows it
press_without_release == press_button

press_and_release_button == press_button \o release_button

toggle_switch ==
    <<"GetState", "SetStateNew", "SetTimeStr", "GetCount", "PutCount">>

\* OPCUAClient.toggle_switch of opcua-client.py, the client of the
\* autonomous devices: it reads State and writes its negation, nothing else
opcua_client_toggle_switch == <<"GetState", "SetStateNew">>

\* the read operations: each is one round trip to the store. get_node_value
\* is read with the Count register's name, as get_count_node calls it.
get_devices == <<"Browse">>

get_device == <<"Browse">>

get_device_info == <<"Browse", "Browse">>

get_node == <<"Browse">>

get_node_value == <<"GetCount">>

\* mutant: the count is returned without being read
get_count_node_unread == <<>>

get_count_node == get_node_value

get_last_change_timestamp == <<"GetTime">>

\* the device's own get_last_change_timestamp
device_get_last_change_timestamp == <<"GetTime">>

DeviceReads == {"device_get_last_change_timestamp"}

ClientReads ==
    {"get_devices", "get_device", "get_device_info", "get_node",
     "get_node_value", "get_count_node", "get_last_change_timestamp"}

DeviceOps(cls) ==
    CASE cls = "VirtualSwitch" -> {"toggle"}
      [] cls = "VirtualButton" -> {"press", "release", "press_and_release"}
      [] OTHER -> {}

ClientOps ==
    {"press_button", "release_button", "press_and_release_button", "toggle_switch"}

\* the operations that write registers
WriteOps == {"toggle", "press", "release", "press_and_release"} \cup ClientOps

OpNames == WriteOps \cup ClientReads \cup DeviceReads

\* the operations of opcua-client.py
RaspiClientOps == {"opcua_client_toggle_switch"}

\* the getter of a device's local counter
CountGetters(cls) ==
    CASE cls = "VirtualSwitch" -> {"get_switch_count"}
      [] cls = "VirtualButton" -> {"get_press_count"}
      [] OTHER -> {}

AllOps ==
    OpNames \cup RaspiClientOps \cup {"get_switch_count", "get_press_count"}

Program(op) ==
    CASE op = "toggle" -> toggle
      [] op = "press" -> press
      [] op = "release" -> release
      [] op = "press_and_release" -> press_and_release
      [] op = "press_button" -> press_button
      [] op = "release_button" -> release_button
      [] op = "press_and_release_button" -> press_and_release_button
      [] op = "toggle_switch" -> toggle_switch
      [] op = "opcua_client_toggle_switch" -> opcua_client_toggle_switch
      [] op = "get_press_count" -> get_press_count
      [] op = "get_switch_count" -> get_switch_count
      [] op = "get_devices" -> get_devices
      [] op = "get_device" -> get_device
      [] op = "get_device_info" -> get_device_info
      [] op = "get_node" -> get_node
      [] op = "get_node_value" -> get_node_value
      [] op = "get_count_node" -> get_count_node
      [] op = "get_last_change_timestamp" -> get_last_change_timestamp
      [] op = "device_get_last_change_timestamp" -> device_get_last_change_timestamp

\* the operations whose body is a try / except Exception
Catches(op) ==
    op \in {"toggle", "get_devices", "get_device", "get_device_info",
            "press_button", "release_button", "press_and_release_button",
            "toggle_switch", "get_count_node", "get_last_change_timestamp",
            "opcua_client_toggle_switch"}

\* where a call goes on after a store access at pc has raised: past the end
\* of the operation, except that press_and_release_button goes on with
\* release_button when press_button has caught the failure
HandlerPc(op, pc) ==
    IF op = "press_and_release_button" /\ pc <= Len(press_button)
    THEN Len(press_button) + 1
    ELSE Len(Program(op)) + 1

\* a caller's locals: the values it has read, and err, which tells whether a
\* store access of the call has failed and where the exception went
Idle ==
    [op |-> "idle", pc |-> 0, cur_state |-> FALSE, cur_count |-> 0,
     cur_time |-> Empty, err |-> "none"]

\* A transition is one write of State by an invocation together with the
\* writes that follow it in that invocation. writer.State and
\* writer.LastStateChange name the caller whose transition, still the
\* caller's latest, wrote the register last; "past" stands for initialize
\* and for every transition that is no longer its caller's latest, and
\* writer.same tells whether two "past" writers are one transition.
ByInitialize == [State |-> "past", LastStateChange |-> "past", same |-> TRUE]

WriterAfterState(p) ==
    [State |-> p,
     LastStateChange |-> IF writer.LastStateChange = p THEN "past"
                         ELSE writer.LastStateChange,
     same |-> FALSE]

WriterAfterTime(p) == [writer EXCEPT !.LastStateChange = p]

WriterAfterReturn(p) ==
    [State |-> IF writer.State = p THEN "past" ELSE writer.State,
     LastStateChange |-> IF writer.LastStateChange = p THEN "past"
                         ELSE writer.LastStateChange,
     same |-> IF writer.State = p /\ writer.LastStateChange = p THEN TRUE
              ELSE IF writer.State = p \/ writer.LastStateChange = p THEN FALSE
              ELSE writer.same]

\* the register a store access writes
WriteKind(instr) ==
    CASE instr \in {"SetStateTrue", "SetStateFalse", "SetStateNew"} -> "State"
      [] instr \in {"SetTime", "SetTimeStr"} -> "LastStateChange"
      [] instr \in {"IncCount", "PutCount"} -> "Count"
      [] OTHER -> "none"

\* the store access caller p is about to make
Instr(p) ==
    IF call[p].op = "idle" THEN "none"
    ELSE IF call[p].pc > Len(Program(call[p].op)) THEN "return"
    ELSE Program(call[p].op)[call[p].pc]

Step(p) == [call EXCEPT ![p].pc = @ + 1]

\* mutant: the counter steps by two
IncrementedTwice(c) == c + 2

\* the counter value written after one more press / toggle
Incremented(c) == c + 1

\* time.time() on the device side, str(time.time()) on the client side
TimeFloat(t) == [kind |-> "float", t |-> t]

TimeStr(t) == [kind |-> "str", t |-> t]

\* any write to the target's registers that is not part of a device toggle
\* ends the run of consecutive toggles
PreAfterWrite(p) ==
    IF p = DeviceCaller /\ call[p].op = "toggle" THEN pre ELSE <<>>

LastTwo(s) == IF Len(s) > 2 THEN SubSeq(s, Len(s) - 1, Len(s)) ELSE s

Snapshot == [State |-> store[target].State, Count |-> store[target].Count]

\* ---------------------------------------------------------------- actions
\* A caller begins an operation on the target device.
Call(p, op) ==
    /\ call[p].op = "idle"
    /\ issued < MaxOps
    /\ IF p = DeviceCaller THEN op \in DeviceOps(dev[target].cls) \cup DeviceReads
                                      \cup CountGetters(dev[target].cls)
                           ELSE op \in ClientOps \cup ClientReads \cup RaspiClientOps
    /\ call' = [call EXCEPT ![p] =
                  [Idle EXCEPT !.op = op, !.pc = 1]]
    /\ issued' = issued + 1
    /\ started' = [started EXCEPT ![op] = @ + 1]
    /\ pre' = IF op = "toggle" /\ target \in DOMAIN store
              THEN LastTwo(Append(pre, Snapshot))
              ELSE IF p = DeviceCaller THEN <<>> ELSE pre
    /\ UNCHANGED <<lifeVars, faults>>
    /\ UNCHANGED <<reg, dev, threads, store, now, target, completed, writer>>

\* node.set_value(True) / node.set_value(False) on the State register
SetState(p, v) ==
    /\ target \in DOMAIN store
    /\ store' = [store EXCEPT ![target].State = v]
    /\ writer' = WriterAfterState(p)
    /\ call' = Step(p)
    /\ pre' = PreAfterWrite(p)
    /\ UNCHANGED <<lifeVars, faults>>
    /\ UNCHANGED <<reg, dev, threads, now, target, issued, started, completed>>

SetStateTrue(p) == Instr(p) = "SetStateTrue" /\ SetState(p, TRUE)

SetStateFalse(p) == Instr(p) = "SetStateFalse" /\ SetState(p, FALSE)

\* current_state = node.get_value()
GetState(p) ==
    /\ Instr(p) = "GetState"
    /\ target \in DOMAIN store
    /\ call' = [Step(p) EXCEPT ![p].cur_state = store[target].State]
    /\ UNCHANGED <<lifeVars, faults>>
    /\ UNCHANGED <<reg, dev, threads, store, now, target, issued,
                   started, completed, writer, pre>>

\* new_state = not current_state; node.set_value(new_state)
SetStateNew(p) == Instr(p) = "SetStateNew" /\ SetState(p, ~call[p].cur_state)

\* the timestamp register is written with the clock's reading
SetTimeTo(p, v) ==
    /\ target \in DOMAIN store
    /\ store' = [store EXCEPT ![target].LastStateChange = v]
    /\ now' = now + 1
    /\ writer' = WriterAfterTime(p)
    /\ call' = Step(p)
    /\ pre' = PreAfterWrite(p)
    /\ UNCHANGED <<lifeVars, faults>>
    /\ UNCHANGED <<reg, dev, threads, target, issued, started, completed>>

\* timestamp_node.set_value(time.time())
SetTime(p) == Instr(p) = "SetTime" /\ SetTimeTo(p, TimeFloat(now))

\* time_node.set_value(str(time.time()))
SetTimeStr(p) == Instr(p) = "SetTimeStr" /\ SetTimeTo(p, TimeStr(now))

\* self.count += 1; count_node.set_value(self.count): the device writes its
\* own counter, it does not read the register back. The counter is a field
\* of the device object, touched by the device-side caller alone.
IncCount(p) ==
    /\ Instr(p) = "IncCount"
    /\ target \in DOMAIN store
    /\ dev' = [dev EXCEPT ![target].count = Incremented(@)]
    /\ store' = [store EXCEPT ![target].Count = Incremented(dev[target].count)]
    /\ call' = Step(p)
    /\ pre' = PreAfterWrite(p)
    /\ UNCHANGED <<lifeVars, faults>>
    /\ UNCHANGED <<reg, threads, now, target, issued, started, completed, writer>>

\* current_count = count_node.get_value()
GetCount(p) ==
    /\ Instr(p) = "GetCount"
    /\ target \in DOMAIN store
    /\ call' = [Step(p) EXCEPT ![p].cur_count = store[target].Count]
    /\ UNCHANGED <<lifeVars, faults>>
    /\ UNCHANGED <<reg, dev, threads, store, now, target, issued,
                   started, completed, writer, pre>>

\* count_node.set_value(current_count + 1)
PutCount(p) ==
    /\ Instr(p) = "PutCount"
    /\ target \in DOMAIN store
    /\ store' = [store EXCEPT ![target].Count = Incremented(call[p].cur_count)]
    /\ call' = Step(p)
    /\ pre' = PreAfterWrite(p)
    /\ UNCHANGED <<lifeVars, faults>>
    /\ UNCHANGED <<reg, dev, threads, now, target, issued, started, completed, writer>>

\* objects.get_children() / get_child(...) / get_variables(): the address
\* space is browsed; a device is found only if it has been initialized
Browse(p) ==
    /\ Instr(p) = "Browse"
    /\ call[p].op = "get_devices" \/ target \in DOMAIN store
    /\ call' = Step(p)
    /\ UNCHANGED <<lifeVars, faults>>
    /\ UNCHANGED <<reg, dev, threads, store, now, target, issued,
                   started, completed, writer, pre>>

\* timestamp = timestamp_node.get_value()
GetTime(p) ==
    /\ Instr(p) = "GetTime"
    /\ target \in DOMAIN store
    /\ call' = [Step(p) EXCEPT ![p].cur_time = store[target].LastStateChange]
    /\ UNCHANGED <<lifeVars, faults>>
    /\ UNCHANGED <<reg, dev, threads, store, now, target, issued,
                   started, completed, writer, pre>>

\* a store access raises: the store is unreachable, the device or the
\* register is missing, or the device's node attribute is still None. The
\* nearest except clause takes over, or the exception leaves the operation.
\* When the access is the write of the counter, self.press_count += 1 /
\* self.switch_count += 1 has run before it.
Fail(p) ==
    /\ Instr(p) \notin {"none", "return"}
    /\ call' = [call EXCEPT
                  ![p].pc = HandlerPc(call[p].op, call[p].pc),
                  ![p].err = IF Catches(call[p].op) THEN "caught" ELSE "raised"]
    /\ dev' = IF Instr(p) = "IncCount"
              THEN [dev EXCEPT ![target].count = Incremented(@)]
              ELSE dev
    /\ faults' = faults + 1
    /\ UNCHANGED lifeVars
    /\ UNCHANGED <<reg, threads, store, now, target, issued,
                   started, completed, writer, pre>>

\* mutant: toggle_switch hands back the state it read
ReturnsStateRead(p) == call[p].cur_state

\* the value a call that has not failed hands back
ReturnValue(p) ==
    CASE call[p].op \in {"toggle", "toggle_switch",
                          "opcua_client_toggle_switch"} -> ~call[p].cur_state
      [] call[p].op \in {"get_count_node", "get_node_value"} -> call[p].cur_count
      [] call[p].op \in {"get_press_count", "get_switch_count"} -> dev[target].count
      [] OTHER -> call[p].cur_time

\* the call hands back None: its except clause has run
ReturnsNone(p) == call[p].err = "caught"

\* the operation returns to its caller
Return(p) ==
    /\ Instr(p) = "return"
    /\ completed' = [completed EXCEPT ![call[p].op] = @ + 1]
    /\ call' = [call EXCEPT ![p] = Idle]
    /\ writer' = WriterAfterReturn(p)
    /\ UNCHANGED <<lifeVars, faults>>
    /\ UNCHANGED <<reg, dev, threads, store, now, target, issued, started, pre>>

\* --------------------------------------------------- lifecycle: helpers
IdleCtx == [op |-> "idle", pc |-> "none", i |-> 0, d |-> "none"]

\* a new OPCUAServer: no store, not running, no devices
NewRegistry == [server |-> 0, up |-> FALSE, running |-> FALSE, devices |-> <<>>]

NoNodes == [d \in {} |-> SwitchNodes]

NoHistory ==
    [setups |-> 0, regStarts |-> 0, regStops |-> 0, teardowns |-> 0, raised |-> 0,
     devStarts |-> [d \in DevNames |-> 0],
     devStops |-> [d \in DevNames |-> 0],
     sequential |-> TRUE,
     addedRunning |-> {}, addedWaiting |-> {}]

\* threading.Thread(target=self._run): created, not yet started
\* (state is the loop's local state / last_state; edges is history: the
\* false-to-true transitions among the values the loop has written)
NewThread == [pc |-> "new", state |-> FALSE, ticks |-> 0, edges |-> 0]

\* where a started thread begins: _run of devices/base.py is `pass`, _run of
\* the autonomous switch enters its loop with state = False
EntryPc(cls) == IF cls \in {"RaspiSwitch", "PhysicalButton"} THEN "check" ELSE "run"

Alive(t) == t.pc \notin {"new", "exited"}

\* the device a lifecycle step of context c works on: the loop variable of
\* the registry's `for device in self.devices`, or the callee of a direct call
CurDev(c) ==
    IF ctx[c].op \in {"start", "stop"} THEN reg.devices[ctx[c].i] ELSE ctx[c].d

\* device.start() / device.stop() returns: the registry's loop goes on to
\* the next device, a direct call returns to its caller
AfterDeviceCall(c) ==
    IF ctx[c].op \in {"start", "stop"}
    THEN [ctx EXCEPT ![c].pc = "loop", ![c].i = @ + 1]
    ELSE [ctx EXCEPT ![c] = IdleCtx]

\* where start() and add_device() go on once self.server is set
AfterSetup(c) == IF ctx[c].op = "start" THEN "server_start" ELSE "append"

\* an exception leaves the call in progress and reaches the caller
Raise(c) ==
    /\ ctx' = [ctx EXCEPT ![c] = IdleCtx]
    /\ hist' = [hist EXCEPT !.raised = @ + 1]

\* calls are sequential when none begins while another is in progress; a
\* start() blocked in its wait loop does not count as in progress
Blocked(c) == ctx[c].op = "idle" \/ (ctx[c].op = "start" /\ ctx[c].pc = "wait")

SeqAfterCall(c) ==
    hist.sequential /\ \A c2 \in Contexts \ {c} : Blocked(c2)

\* ------------------------------------------------------------- registry
\* the registry is running and start() has left its device loop: it sits in
\* its wait loop
Waiting ==
    /\ reg.running
    /\ \A c \in Contexts : ctx[c].op = "start" => ctx[c].pc = "wait"

\* history: the device of an add_device call that begins while `late` holds
LateAdd(op, d, late) == IF op = "add_device" /\ late THEN {d} ELSE {}

\* the device named d is in the registry's collection
Added(d) == \E k \in 1..Len(reg.devices) : reg.devices[k] = d

\* the first statement of a registry operation
FirstPc(op) ==
    CASE op = "stop" -> "check_running"
      [] op = "setup" -> "setup"
      [] OTHER -> "check_server"

\* a context calls OPCUAServer.setup(), start(), stop() or add_device(device)
RegCall(c, op, d) ==
    /\ ctx[c].op = "idle"
    /\ regCalls < MaxRegCalls
    /\ \/ op \in {"setup", "start", "stop"} /\ d = "none"
       \/ op = "add_device" /\ d \in DevNames
    /\ ctx' = [ctx EXCEPT ![c] = [op |-> op, i |-> 0, d |-> d, pc |-> FirstPc(op)]]
    /\ regCalls' = regCalls + 1
    /\ hist' = [hist EXCEPT !.sequential = SeqAfterCall(c),
                            !.regStarts = IF op = "start" THEN @ + 1 ELSE @,
                            !.regStops = IF op = "stop" THEN @ + 1 ELSE @,
                            !.addedRunning = @ \cup LateAdd(op, d, reg.running),
                            !.addedWaiting = @ \cup LateAdd(op, d, Waiting)]
    /\ UNCHANGED <<reg, dev, threads, store, now, target, lifeCalls>>
    /\ UNCHANGED <<call, issued, started, completed, writer, pre, faults>>

\* if self.server is None: (start and add_device)
CheckServer(c) ==
    /\ ctx[c].pc = "check_server"
    /\ ctx' = [ctx EXCEPT ![c].pc = IF reg.server = 0 THEN "setup" ELSE AfterSetup(c)]
    /\ UNCHANGED <<reg, dev, threads, store, now, target, regCalls, lifeCalls, hist>>
    /\ UNCHANGED <<call, issued, started, completed, writer, pre, faults>>

\* OPCUAServer.setup: self.server = Server(), a new and empty address space
setup(c) ==
    /\ ctx[c].pc = "setup"
    /\ reg' = [reg EXCEPT !.server = hist.setups + 1, !.up = FALSE]
    /\ store' = NoNodes
    /\ hist' = [hist EXCEPT !.setups = @ + 1]
    /\ ctx' = IF ctx[c].op = "setup" THEN [ctx EXCEPT ![c] = IdleCtx]
              ELSE [ctx EXCEPT ![c].pc = AfterSetup(c)]
    /\ UNCHANGED <<dev, threads, now, target, regCalls, lifeCalls>>
    /\ UNCHANGED <<call, issued, started, completed, writer, pre, faults>>

\* mutant: add_device sets the running flag of the device it appends
AppendDeviceRunning(c) ==
    /\ ctx[c].pc = "append"
    /\ reg' = [reg EXCEPT !.devices = Append(@, ctx[c].d)]
    /\ dev' = [dev EXCEPT ![ctx[c].d].running = TRUE]
    /\ ctx' = [ctx EXCEPT ![c].pc = "initialize"]
    /\ UNCHANGED <<threads, store, now, target, regCalls, lifeCalls, hist>>
    /\ UNCHANGED <<call, issued, started, completed, writer, pre, faults>>

\* self.devices.append(device)
AppendDevice(c) ==
    /\ ctx[c].pc = "append"
    /\ reg' = [reg EXCEPT !.devices = Append(@, ctx[c].d)]
    /\ ctx' = [ctx EXCEPT ![c].pc = "initialize"]
    /\ UNCHANGED <<dev, threads, store, now, target, regCalls, lifeCalls, hist>>
    /\ UNCHANGED <<call, issued, started, completed, writer, pre, faults>>

\* device.initialize(server, namespace_idx): add_object and _setup_nodes
initialize(c) ==
    /\ ctx[c].pc = "initialize"
    /\ store' = (ctx[c].d :> SetupNodes(dev[ctx[c].d].cls)) @@ store
    /\ ctx' = [ctx EXCEPT ![c] = IdleCtx]
    /\ UNCHANGED <<reg, dev, threads, now, target, regCalls, lifeCalls, hist>>
    /\ UNCHANGED <<call, issued, started, completed, writer, pre, faults>>

\* device.initialize for a name the address space holds already: the
\* protocol runtime either adds the object (initialize above) or rejects it
InitializeRaises(c) ==
    /\ ctx[c].pc = "initialize"
    /\ ctx[c].d \in DOMAIN store
    /\ Raise(c)
    /\ UNCHANGED <<reg, dev, threads, store, now, target, regCalls, lifeCalls>>
    /\ UNCHANGED <<call, issued, started, completed, writer, pre, faults>>

\* self.server.start() on a server that is not up
ServerStart(c) ==
    /\ ctx[c].pc = "server_start"
    /\ ~reg.up
    /\ reg' = [reg EXCEPT !.up = TRUE]
    /\ ctx' = [ctx EXCEPT ![c].pc = "set_running"]
    /\ UNCHANGED <<dev, threads, store, now, target, regCalls, lifeCalls, hist>>
    /\ UNCHANGED <<call, issued, started, completed, writer, pre, faults>>

\* self.server.start() on a server that is up already: the protocol runtime
\* either accepts the second start or raises (its endpoint is in use)
ServerStartAgain(c) ==
    /\ ctx[c].pc = "server_start"
    /\ reg.up
    /\ \/ ctx' = [ctx EXCEPT ![c].pc = "set_running"] /\ hist' = hist
       \/ Raise(c)
    /\ UNCHANGED <<reg, dev, threads, store, now, target, regCalls, lifeCalls>>
    /\ UNCHANGED <<call, issued, started, completed, writer, pre, faults>>

\* self.running = True
SetRunning(c) ==
    /\ ctx[c].pc = "set_running"
    /\ reg' = [reg EXCEPT !.running = TRUE]
    /\ ctx' = [ctx EXCEPT ![c].pc = "loop", ![c].i = 1]
    /\ UNCHANGED <<dev, threads, store, now, target, regCalls, lifeCalls, hist>>
    /\ UNCHANGED <<call, issued, started, completed, writer, pre, faults>>

\* mutant: the loop of start() leaves the last device out
StartLoopSkipsLast(c) ==
    /\ ctx[c].op = "start" /\ ctx[c].pc = "loop"
    /\ ctx' = [ctx EXCEPT ![c].pc = IF ctx[c].i < Len(reg.devices)
                                    THEN "dev_set_running" ELSE "wait"]
    /\ UNCHANGED <<reg, dev, threads, store, now, target, regCalls, lifeCalls, hist>>
    /\ UNCHANGED <<call, issued, started, completed, writer, pre, faults>>

\* for device in self.devices: (of start) the next device, or the wait loop
StartLoop(c) ==
    /\ ctx[c].op = "start" /\ ctx[c].pc = "loop"
    /\ ctx' = [ctx EXCEPT ![c].pc = IF ctx[c].i <= Len(reg.devices)
                                    THEN "dev_set_running" ELSE "wait"]
    /\ UNCHANGED <<reg, dev, threads, store, now, target, regCalls, lifeCalls, hist>>
    /\ UNCHANGED <<call, issued, started, completed, writer, pre, faults>>

\* mutant: the wait loop ends whatever the flag says
WaitExitUnguarded(c) ==
    /\ ctx[c].pc = "wait"
    /\ ctx' = [ctx EXCEPT ![c] = IdleCtx]
    /\ UNCHANGED <<reg, dev, threads, store, now, target, regCalls, lifeCalls, hist>>
    /\ UNCHANGED <<call, issued, started, completed, writer, pre, faults>>

\* while self.running: time.sleep(1) -- start() returns once running is false
WaitExit(c) ==
    /\ ctx[c].pc = "wait"
    /\ ~reg.running
    /\ ctx' = [ctx EXCEPT ![c] = IdleCtx]
    /\ UNCHANGED <<reg, dev, threads, store, now, target, regCalls, lifeCalls, hist>>
    /\ UNCHANGED <<call, issued, started, completed, writer, pre, faults>>

\* mutant: stop() without its `if self.running:` guard
CheckRunningUnguarded(c) ==
    /\ ctx[c].pc = "check_running"
    /\ ctx' = [ctx EXCEPT ![c].pc = "clear_running"]
    /\ UNCHANGED <<reg, dev, threads, store, now, target, regCalls, lifeCalls, hist>>
    /\ UNCHANGED <<call, issued, started, completed, writer, pre, faults>>

\* if self.running: (of stop) -- stop() returns at once when it is false
CheckRunning(c) ==
    /\ ctx[c].pc = "check_running"
    /\ ctx' = [ctx EXCEPT ![c] = IF reg.running
                                 THEN [@ EXCEPT !.pc = "clear_running"]
                                 ELSE IdleCtx]
    /\ UNCHANGED <<reg, dev, threads, store, now, target, regCalls, lifeCalls, hist>>
    /\ UNCHANGED <<call, issued, started, completed, writer, pre, faults>>

\* self.running = False
ClearRunning(c) ==
    /\ ctx[c].pc = "clear_running"
    /\ reg' = [reg EXCEPT !.running = FALSE]
    /\ ctx' = [ctx EXCEPT ![c].pc = "loop", ![c].i = 1]
    /\ UNCHANGED <<dev, threads, store, now, target, regCalls, lifeCalls, hist>>
    /\ UNCHANGED <<call, issued, started, completed, writer, pre, faults>>

\* mutant: stop() tears the store down before it stops the devices
StopLoopTeardownFirst(c) ==
    /\ ctx[c].op = "stop" /\ ctx[c].pc = "loop"
    /\ ctx' = [ctx EXCEPT ![c].pc = "server_stop"]
    /\ UNCHANGED <<reg, dev, threads, store, now, target, regCalls, lifeCalls, hist>>
    /\ UNCHANGED <<call, issued, started, completed, writer, pre, faults>>

\* for device in self.devices: (of stop) the next device, or the teardown
StopLoop(c) ==
    /\ ctx[c].op = "stop" /\ ctx[c].pc = "loop"
    /\ ctx' = [ctx EXCEPT ![c].pc = IF ctx[c].i <= Len(reg.devices)
                                    THEN "dev_clear_running" ELSE "server_stop"]
    /\ UNCHANGED <<reg, dev, threads, store, now, target, regCalls, lifeCalls, hist>>
    /\ UNCHANGED <<call, issued, started, completed, writer, pre, faults>>

\* if self.server: self.server.stop()
ServerStop(c) ==
    /\ ctx[c].pc = "server_stop"
    /\ reg' = [reg EXCEPT !.up = IF reg.server # 0 THEN FALSE ELSE @]
    /\ hist' = [hist EXCEPT !.teardowns = IF reg.server # 0 THEN @ + 1 ELSE @]
    /\ ctx' = [ctx EXCEPT ![c] = IdleCtx]
    /\ UNCHANGED <<dev, threads, store, now, target, regCalls, lifeCalls>>
    /\ UNCHANGED <<call, issued, started, completed, writer, pre, faults>>

\* -------------------------------------------------------------- devices
\* a context calls start() or stop() of the target device directly
DeviceCall(c, op) ==
    /\ ctx[c].op = "idle"
    /\ lifeCalls < MaxLifeCalls
    /\ op \in {"device_start", "device_stop"}
    /\ ctx' = [ctx EXCEPT ![c] =
                 [op |-> op, i |-> 0, d |-> target,
                  pc |-> IF op = "device_start" THEN "dev_set_running"
                                                ELSE "dev_clear_running"]]
    /\ lifeCalls' = lifeCalls + 1
    /\ UNCHANGED <<reg, dev, threads, store, now, target, regCalls, hist>>
    /\ UNCHANGED <<call, issued, started, completed, writer, pre, faults>>

\* BaseDevice.start: self.running = True
DeviceSetRunning(c) ==
    /\ ctx[c].pc = "dev_set_running"
    /\ dev' = [dev EXCEPT ![CurDev(c)].running = TRUE]
    /\ hist' = [hist EXCEPT !.devStarts[CurDev(c)] = @ + 1]
    /\ ctx' = [ctx EXCEPT ![c].pc = "dev_create"]
    /\ UNCHANGED <<reg, threads, store, now, target, regCalls, lifeCalls>>
    /\ UNCHANGED <<call, issued, started, completed, writer, pre, faults>>

\* BaseDevice.start: self.thread = threading.Thread(target=self._run)
\* (hasattr(self, "_run") holds of every device: BaseDevice defines _run)
DeviceCreateThread(c) ==
    /\ ctx[c].pc = "dev_create"
    /\ threads' = [threads EXCEPT ![CurDev(c)] = Append(@, NewThread)]
    /\ dev' = [dev EXCEPT ![CurDev(c)].thread = Len(threads[CurDev(c)]) + 1]
    /\ ctx' = [ctx EXCEPT ![c].pc = "dev_start_thread"]
    /\ UNCHANGED <<reg, store, now, target, regCalls, lifeCalls, hist>>
    /\ UNCHANGED <<call, issued, started, completed, writer, pre, faults>>

\* BaseDevice.start: self.thread.start() -- the thread self.thread names now
DeviceStartThread(c) ==
    /\ ctx[c].pc = "dev_start_thread"
    /\ LET d == CurDev(c)
           k == dev[d].thread
       IN /\ threads[d][k].pc = "new"
          /\ threads' = [threads EXCEPT ![d][k].pc = EntryPc(dev[d].cls)]
    /\ ctx' = AfterDeviceCall(c)
    /\ UNCHANGED <<reg, dev, store, now, target, regCalls, lifeCalls, hist>>
    /\ UNCHANGED <<call, issued, started, completed, writer, pre, faults>>

\* self.thread.start() on a thread another start() has started already:
\* RuntimeError, threads can only be started once
DeviceStartThreadRaises(c) ==
    /\ ctx[c].pc = "dev_start_thread"
    /\ threads[CurDev(c)][dev[CurDev(c)].thread].pc # "new"
    /\ Raise(c)
    /\ UNCHANGED <<reg, dev, threads, store, now, target, regCalls, lifeCalls>>
    /\ UNCHANGED <<call, issued, started, completed, writer, pre, faults>>

\* BaseDevice.stop: self.running = False
DeviceClearRunning(c) ==
    /\ ctx[c].pc = "dev_clear_running"
    /\ dev' = [dev EXCEPT ![CurDev(c)].running = FALSE]
    /\ hist' = [hist EXCEPT !.devStops[CurDev(c)] = @ + 1]
    /\ ctx' = [ctx EXCEPT ![c].pc = "dev_join"]
    /\ UNCHANGED <<reg, threads, store, now, target, regCalls, lifeCalls>>
    /\ UNCHANGED <<call, issued, started, completed, writer, pre, faults>>

\* mutant: join() without a timeout returns only once the thread has exited
JoinWithoutTimeout(t) == t.pc = "exited"

\* the outcome of self.thread.join(timeout=2): the thread has exited, or the
\* timeout has passed with the thread alive; either way join returns
JoinReturns(t) == t.pc = "exited" \/ Alive(t)

\* BaseDevice.stop: if self.thread: self.thread.join(timeout=2); stop returns
DeviceJoin(c) ==
    /\ ctx[c].pc = "dev_join"
    /\ LET d == CurDev(c)
           k == dev[d].thread
       IN k # 0 => JoinReturns(threads[d][k])
    /\ ctx' = AfterDeviceCall(c)
    /\ UNCHANGED <<reg, dev, threads, store, now, target, regCalls, lifeCalls, hist>>
    /\ UNCHANGED <<call, issued, started, completed, writer, pre, faults>>

\* join() of a thread that start() has created and not yet started:
\* RuntimeError, cannot join thread before it is started
DeviceJoinRaises(c) ==
    /\ ctx[c].pc = "dev_join"
    /\ dev[CurDev(c)].thread # 0
    /\ threads[CurDev(c)][dev[CurDev(c)].thread].pc = "new"
    /\ Raise(c)
    /\ UNCHANGED <<reg, dev, threads, store, now, target, regCalls, lifeCalls>>
    /\ UNCHANGED <<call, issued, started, completed, writer, pre, faults>>

\* -------------------------------------------------------------- threads
\* mutant: the update thread toggles State before it ends
RunToggles(d, k) ==
    /\ threads[d][k].pc = "run"
    /\ threads' = [threads EXCEPT ![d][k].pc = "exited"]
    /\ store' = [store EXCEPT ![d].State = ~@]
    /\ UNCHANGED <<reg, dev, now, target>>
    /\ UNCHANGED lifeVars
    /\ UNCHANGED <<call, issued, started, completed, writer, pre, faults>>

\* BaseDevice._run of devices/base.py: pass -- the thread ends at once
RunPass(d, k) ==
    /\ threads[d][k].pc = "run"
    /\ threads' = [threads EXCEPT ![d][k].pc = "exited"]
    /\ UNCHANGED <<reg, dev, store, now, target>>
    /\ UNCHANGED lifeVars
    /\ UNCHANGED <<call, issued, started, completed, writer, pre, faults>>

\* the first statement of the loop's body
LoopBody(cls) == IF cls = "PhysicalButton" THEN "roll" ELSE "set_state"

\* mutant: the loop never looks at the flag
WhileTrue(d) == TRUE

\* the loop's condition: while self.running
WhileRunning(d) == dev[d].running

\* VirtualSwitch._run of opcua-raspi.py: while self.running: -- the flag is
\* polled once per iteration, after the sleep of the iteration before
LoopCheck(d, k) ==
    /\ threads[d][k].pc = "check"
    /\ WhileRunning(d) => threads[d][k].ticks < MaxTicks
    /\ threads' = [threads EXCEPT ![d][k] =
                     IF WhileRunning(d)
                     THEN [@ EXCEPT !.pc = LoopBody(dev[d].cls), !.ticks = @ + 1]
                     ELSE [@ EXCEPT !.pc = "exited"]]
    /\ UNCHANGED <<reg, dev, store, now, target>>
    /\ UNCHANGED lifeVars
    /\ UNCHANGED <<call, issued, started, completed, writer, pre, faults>>

\* state = not state; self.switch_node.set_value(state)
LoopSetState(d, k) ==
    /\ threads[d][k].pc = "set_state"
    /\ threads' = [threads EXCEPT ![d][k].pc = "set_time", ![d][k].state = ~@]
    /\ store' = [store EXCEPT ![d].State = ~threads[d][k].state]
    /\ UNCHANGED <<reg, dev, now, target>>
    /\ UNCHANGED lifeVars
    /\ UNCHANGED <<call, issued, started, completed, writer, pre, faults>>

\* self.timestamp_node.set_value(time.strftime(...)); then time.sleep
LoopSetTime(d, k) ==
    /\ threads[d][k].pc = "set_time"
    /\ threads' = [threads EXCEPT ![d][k].pc = "check"]
    /\ store' = [store EXCEPT ![d].LastToggleTime = TimeStr(now)]
    /\ now' = now + 1
    /\ UNCHANGED <<reg, dev, target>>
    /\ UNCHANGED lifeVars
    /\ UNCHANGED <<call, issued, started, completed, writer, pre, faults>>

\* PhysicalButton._run_simulated: if random.random() < 0.05: -- the state
\* changes on this tick, or the tick only sleeps
ButtonRoll(d, k) ==
    /\ threads[d][k].pc = "roll"
    /\ \E change \in BOOLEAN :
         threads' = [threads EXCEPT ![d][k].pc = IF change THEN "set_pressed"
                                                 ELSE "check"]
    /\ UNCHANGED <<reg, dev, store, now, target>>
    /\ UNCHANGED lifeVars
    /\ UNCHANGED <<call, issued, started, completed, writer, pre, faults>>

\* mutant: every change of the state goes on to the counter
CountsEveryChange(new_state, last_state) == TRUE

\* if new_state and not last_state:
RisingEdge(new_state, last_state) == new_state /\ ~last_state

\* new_state = not last_state; self.button_node.set_value(new_state); on a
\* rising edge the counter is next, else last_state = new_state and sleep
ButtonSetPressed(d, k) ==
    /\ threads[d][k].pc = "set_pressed"
    /\ LET last_state == threads[d][k].state
           new_state == ~threads[d][k].state
       IN /\ store' = [store EXCEPT ![d].Pressed = new_state]
          /\ threads' = [threads EXCEPT ![d][k] =
                 IF RisingEdge(new_state, last_state)
                 THEN [@ EXCEPT !.pc = "count",
                                !.edges = IF new_state /\ ~last_state
                                          THEN @ + 1 ELSE @]
                 ELSE [@ EXCEPT !.pc = "check", !.state = new_state]]
    /\ UNCHANGED <<reg, dev, now, target>>
    /\ UNCHANGED lifeVars
    /\ UNCHANGED <<call, issued, started, completed, writer, pre, faults>>

\* self.press_count += 1; self.press_count_node.set_value(self.press_count);
\* last_state = new_state; then time.sleep
ButtonCount(d, k) ==
    /\ threads[d][k].pc = "count"
    /\ dev' = [dev EXCEPT ![d].count = Incremented(@)]
    /\ store' = [store EXCEPT ![d].PressCount = Incremented(dev[d].count)]
    /\ threads' = [threads EXCEPT ![d][k].pc = "check", ![d][k].state = ~@]
    /\ UNCHANGED <<reg, now, target>>
    /\ UNCHANGED lifeVars
    /\ UNCHANGED <<call, issued, started, completed, writer, pre, faults>>

\* ------------------------------------------------------- specifications
MainDevices == <<"VirtualSwitch", "Button1">>

\* the devices main() of server.py constructs
ClassOf(d) == IF d = "VirtualSwitch" THEN "VirtualSwitch" ELSE "VirtualButton"

NoCalls ==
    /\ call = [p \in Callers |-> Idle]
    /\ issued = 0
    /\ started = [o \in AllOps |-> 0]
    /\ completed = [o \in AllOps |-> 0]
    /\ writer = ByInitialize
    /\ pre = <<>>
    /\ faults = 0

NoLifecycle ==
    /\ ctx = [c \in Contexts |-> IdleCtx]
    /\ regCalls = 0
    /\ lifeCalls = 0
    /\ hist = NoHistory

\* Registry lifecycle. Init is the state after construction: a registry with
\* no store and no devices, and the two devices of main(), not yet added.
Init ==
    /\ reg = NewRegistry
    /\ dev = [d \in DevNames |-> NewDevice(ClassOf(d))]
    /\ threads = [d \in DevNames |-> <<>>]
    /\ store = NoNodes
    /\ now = 1
    /\ target = MainDevices[1]
    /\ NoCalls
    /\ NoLifecycle

Next ==
    \E c \in Threads :
        \/ \E op \in {"start", "stop"} : RegCall(c, op, "none")
        \/ \E d \in DevNames : ~Added(d) /\ RegCall(c, "add_device", d)
        \/ CheckServer(c)
        \/ setup(c)
        \/ AppendDevice(c)
        \/ initialize(c)
        \/ ServerStart(c)
        \/ ServerStartAgain(c)
        \/ SetRunning(c)
        \/ StartLoop(c)
        \/ WaitExit(c)
        \/ CheckRunning(c)
        \/ ClearRunning(c)
        \/ StopLoop(c)
        \/ ServerStop(c)
        \/ DeviceSetRunning(c)
        \/ DeviceCreateThread(c)
        \/ DeviceStartThread(c)
        \/ DeviceStartThreadRaises(c)
        \/ DeviceClearRunning(c)
        \/ DeviceJoin(c)
        \/ DeviceJoinRaises(c)
        \/ \E d \in DevNames : \E k \in 1..Len(threads[d]) : RunPass(d, k)

Spec == Init /\ [][Next]_vars

\* Registry configuration. Init as above; the contexts call setup() and
\* add_device() freely, also with a device that has been added already.
NextSetup ==
    \/ Next
    \/ \E c \in Threads :
         \/ RegCall(c, "setup", "none")
         \/ \E d \in DevNames : Added(d) /\ RegCall(c, "add_device", d)
         \/ InitializeRaises(c)

SpecSetup == Init /\ [][NextSetup]_vars

\* Stopping a running registry. Init is the state after main() of server.py
\* has added its two devices and start() has started them: the main thread
\* sits in the wait loop of start(). Every context may call stop(): the
\* signal handler, another thread, and the main thread once start() has
\* returned (the finally clause of main()).
InitStop ==
    /\ reg = [server |-> 1, up |-> TRUE, running |-> TRUE, devices |-> MainDevices]
    /\ dev = [d \in DevNames |->
                [NewDevice(ClassOf(d)) EXCEPT !.running = TRUE, !.thread = 1]]
    /\ threads = [d \in DevNames |-> <<[NewThread EXCEPT !.pc = "exited"]>>]
    /\ store = [d \in DevNames |-> SetupNodes(ClassOf(d))]
    /\ now = 1
    /\ target = MainDevices[1]
    /\ NoCalls
    /\ ctx = [c \in Contexts |->
                IF c = "main"
                THEN [op |-> "start", pc |-> "wait", i |-> Len(MainDevices) + 1,
                      d |-> "none"]
                ELSE IdleCtx]
    /\ regCalls = 1
    /\ lifeCalls = 0
    /\ hist = [NoHistory EXCEPT !.setups = 1, !.regStarts = 1,
                                !.devStarts = [d \in DevNames |-> 1]]

NextStop ==
    \E c \in Contexts :
        \/ RegCall(c, "stop", "none")
        \/ WaitExit(c)
        \/ CheckRunning(c)
        \/ ClearRunning(c)
        \/ StopLoop(c)
        \/ DeviceClearRunning(c)
        \/ DeviceJoin(c)
        \/ ServerStop(c)

SpecStop == InitStop /\ [][NextStop]_vars

\* The main thread is scheduled: the time.sleep(1) of its wait loop ends and
\* the loop's condition is evaluated again. Nothing is assumed of the
\* callers of stop().
SpecStopFair == SpecStop /\ WF_vars(WaitExit("main"))

\* Register operations. Init is the state after main() of server.py has
\* added its two devices and start() has started them: both devices
\* initialized and running, their threads ended, counters at 0.
InitOps ==
    /\ reg = [server |-> 1, up |-> TRUE, running |-> TRUE, devices |-> MainDevices]
    /\ dev = [d \in DevNames |->
                [NewDevice(ClassOf(d)) EXCEPT !.running = TRUE, !.thread = 1]]
    /\ threads = [d \in DevNames |-> <<[NewThread EXCEPT !.pc = "exited"]>>]
    /\ store = [d \in DevNames |-> SetupNodes(ClassOf(d))]
    /\ now = 1
    /\ target \in DevNames
    /\ NoCalls
    /\ ctx = [c \in Contexts |-> IdleCtx]
    /\ regCalls = 0
    /\ lifeCalls = 0
    /\ hist = [NoHistory EXCEPT !.setups = 1, !.regStarts = 1,
                                !.devStarts = [d \in DevNames |-> 1]]

NextOps ==
    \E p \in Callers :
        \/ \E op \in WriteOps : Call(p, op)
        \/ SetStateTrue(p)
        \/ SetStateFalse(p)
        \/ GetState(p)
        \/ SetStateNew(p)
        \/ SetTime(p)
        \/ SetTimeStr(p)
        \/ IncCount(p)
        \/ GetCount(p)
        \/ PutCount(p)
        \/ Return(p)

SpecOps == InitOps /\ [][NextOps]_vars

\* Device lifecycle. Init is the state after the target device, of any
\* class, has been constructed and added to a registry; one context calls
\* its start() and stop() one after the other while its threads run.
InitDev ==
    /\ target \in DevNames
    /\ \E cls \in Classes :
         /\ dev = [d \in DevNames |->
                     IF d = target THEN NewDevice(cls) ELSE NewDevice(ClassOf(d))]
         /\ store = (target :> SetupNodes(cls))
    /\ reg = [NewRegistry EXCEPT !.server = 1, !.devices = <<target>>]
    /\ threads = [d \in DevNames |-> <<>>]
    /\ now = 1
    /\ NoCalls
    /\ NoLifecycle

NextDev ==
    \/ \E op \in {"device_start", "device_stop"} : DeviceCall("main", op)
    \/ DeviceSetRunning("main")
    \/ DeviceCreateThread("main")
    \/ DeviceStartThread("main")
    \/ DeviceClearRunning("main")
    \/ DeviceJoin("main")
    \/ \E k \in 1..Len(threads[target]) :
         \/ RunPass(target, k)
         \/ LoopCheck(target, k)
         \/ LoopSetState(target, k)
         \/ LoopSetTime(target, k)

SpecDev == InitDev /\ [][NextDev]_vars

\* The caller of stop() makes progress: join(timeout=2) returns when the
\* thread has exited or the timeout has passed. Nothing is assumed of the
\* update threads: a loop may never get to poll its flag.
SpecDevFair ==
    /\ SpecDev
    /\ WF_vars(DeviceClearRunning("main"))
    /\ WF_vars(DeviceJoin("main"))

\* The k-th update thread of the target device takes its next step.
ThreadStep(k) ==
    /\ k <= Len(threads[target])
    /\ \/ RunPass(target, k)
       \/ LoopCheck(target, k)
       \/ LoopSetState(target, k)
       \/ LoopSetTime(target, k)

\* Fair scheduling of the update threads: a thread that can take a step
\* takes it eventually (its sleep ends, the interpreter switches to it).
\* Nothing is assumed of the caller of start() and stop().
SpecDevSched ==
    /\ SpecDev
    /\ \A k \in 1..MaxLifeCalls : WF_vars(ThreadStep(k))

\* The simulated button of opcua-raspi.py. Init is the state after the
\* button has been constructed and added to a registry; one context calls
\* its start() and stop() one after the other while its loops run.
InitButton ==
    /\ target = "Button1"
    /\ dev = [d \in DevNames |->
                IF d = target THEN NewDevice("PhysicalButton")
                ELSE NewDevice(ClassOf(d))]
    /\ store = (target :> SetupNodes("PhysicalButton"))
    /\ reg = [NewRegistry EXCEPT !.server = 1, !.devices = <<target>>]
    /\ threads = [d \in DevNames |-> <<>>]
    /\ now = 1
    /\ NoCalls
    /\ NoLifecycle

NextButton ==
    \/ \E op \in {"device_start", "device_stop"} : DeviceCall("main", op)
    \/ DeviceSetRunning("main")
    \/ DeviceCreateThread("main")
    \/ DeviceStartThread("main")
    \/ DeviceClearRunning("main")
    \/ DeviceJoin("main")
    \/ \E k \in 1..Len(threads[target]) :
         \/ LoopCheck(target, k)
         \/ ButtonRoll(target, k)
         \/ ButtonSetPressed(target, k)
         \/ ButtonCount(target, k)

SpecButton == InitButton /\ [][NextButton]_vars

\* Failing store accesses. Init is the state after main() of server.py has
\* started the registry, with the target device either added or constructed
\* only (its registers do not exist, its node attributes are None). The
\* device-side caller and one client call every public operation, and any
\* store access may raise.
ErrCallers == {DeviceCaller, "client1"}

InitErr ==
    /\ target \in DevNames
    /\ \E added \in {DevNames, DevNames \ {target}} :
         /\ store = [d \in added |-> SetupNodes(ClassOf(d))]
         /\ reg = [server |-> 1, up |-> TRUE, running |-> TRUE,
                   devices |-> SelectSeq(MainDevices, LAMBDA d : d \in added)]
         /\ dev = [d \in DevNames |->
                     IF d \in added
                     THEN [NewDevice(ClassOf(d)) EXCEPT !.running = TRUE, !.thread = 1]
                     ELSE NewDevice(ClassOf(d))]
         /\ threads = [d \in DevNames |->
                         IF d \in added THEN <<[NewThread EXCEPT !.pc = "exited"]>>
                         ELSE <<>>]
         /\ hist = [NoHistory EXCEPT
                      !.setups = 1, !.regStarts = 1,
                      !.devStarts = [d \in DevNames |-> IF d \in added THEN 1 ELSE 0]]
    /\ now = 1
    /\ NoCalls
    /\ ctx = [c \in Contexts |-> IdleCtx]
    /\ regCalls = 0
    /\ lifeCalls = 0

NextErr ==
    \E p \in ErrCallers :
        \/ \E op \in OpNames : Call(p, op)
        \/ SetStateTrue(p)
        \/ SetStateFalse(p)
        \/ GetState(p)
        \/ SetStateNew(p)
        \/ SetTime(p)
        \/ SetTimeStr(p)
        \/ IncCount(p)
        \/ GetCount(p)
        \/ PutCount(p)
        \/ Browse(p)
        \/ GetTime(p)
        \/ Fail(p)
        \/ Return(p)

SpecErr == InitErr /\ [][NextErr]_vars

\* Register operations of the device-side caller and one client, interleaved,
\* with no failing store access. Init is the state of SpecOps.
NextPair ==
    \E p \in ErrCallers :
        \/ \E op \in WriteOps : Call(p, op)
        \/ SetStateTrue(p)
        \/ SetStateFalse(p)
        \/ GetState(p)
        \/ SetStateNew(p)
        \/ SetTime(p)
        \/ SetTimeStr(p)
        \/ IncCount(p)
        \/ GetCount(p)
        \/ PutCount(p)
        \/ Return(p)

SpecPair == InitOps /\ [][NextPair]_vars

\* One client, no other writer. Init is the state of SpecOps: the registry
\* freshly started, counters at 0. The client calls its composite operations
\* and get_count_node one after the other, and any store access may raise.
TheClient == "client1"

NextClient ==
    \/ \E op \in ClientOps \cup {"get_count_node"} : Call(TheClient, op)
    \/ SetStateTrue(TheClient)
    \/ SetStateFalse(TheClient)
    \/ GetState(TheClient)
    \/ SetStateNew(TheClient)
    \/ SetTimeStr(TheClient)
    \/ GetCount(TheClient)
    \/ PutCount(TheClient)
    \/ Fail(TheClient)
    \/ Return(TheClient)

SpecClient == InitOps /\ [][NextClient]_vars

\* A device written by its own operations only. Init is the state of
\* SpecOps: the registry freshly started, counters at 0. The device-side
\* caller calls the target device's operations and getters one after the
\* other; no client writes and no store access raises.
NextOwn ==
    \/ \E op \in DeviceOps(dev[target].cls) \cup DeviceReads
                  \cup CountGetters(dev[target].cls) : Call(DeviceCaller, op)
    \/ SetStateTrue(DeviceCaller)
    \/ SetStateFalse(DeviceCaller)
    \/ GetState(DeviceCaller)
    \/ SetStateNew(DeviceCaller)
    \/ SetTime(DeviceCaller)
    \/ IncCount(DeviceCaller)
    \/ GetTime(DeviceCaller)
    \/ Return(DeviceCaller)

SpecOwn == InitOps /\ [][NextOwn]_vars

\* The manually-triggered devices between start() and stop(). Init is the
\* state after the target device, a VirtualSwitch or a VirtualButton of
\* src/opcua/devices, has been constructed and added to a registry. One
\* context calls its start() and then its stop() while its update thread
\* runs, the
\* device-side caller calls the device's operations and a client its own.
InitManual ==
    /\ target \in DevNames
    /\ dev = [d \in DevNames |-> NewDevice(ClassOf(d))]
    /\ store = (target :> SetupNodes(ClassOf(target)))
    /\ reg = [NewRegistry EXCEPT !.server = 1, !.devices = <<target>>]
    /\ threads = [d \in DevNames |-> <<>>]
    /\ now = 1
    /\ NoCalls
    /\ NoLifecycle

NextManual ==
    \/ hist.devStarts[target] = 0 /\ DeviceCall("main", "device_start")
    \/ /\ hist.devStarts[target] = 1
       /\ hist.devStops[target] = 0
       /\ DeviceCall("main", "device_stop")
    \/ DeviceSetRunning("main")
    \/ DeviceCreateThread("main")
    \/ DeviceStartThread("main")
    \/ DeviceClearRunning("main")
    \/ DeviceJoin("main")
    \/ \E k \in 1..Len(threads[target]) : RunPass(target, k)
    \/ \E p \in ErrCallers :
         \/ \E op \in WriteOps : Call(p, op)
         \/ SetStateTrue(p)
         \/ SetStateFalse(p)
         \/ GetState(p)
         \/ SetStateNew(p)
         \/ SetTime(p)
         \/ SetTimeStr(p)
         \/ IncCount(p)
         \/ GetCount(p)
         \/ PutCount(p)
         \/ Return(p)

SpecManual == InitManual /\ [][NextManual]_vars

\* The autonomous switch of opcua-raspi.py and a client of it. Init is the
\* state after the switch has been constructed and added to a registry; one
\* context calls its start() and stop() while its loops run, and the client
\* of opcua-client.py toggles the switch at any time.
InitAuto ==
    /\ target = "VirtualSwitch"
    /\ dev = [d \in DevNames |->
                IF d = target THEN NewDevice("RaspiSwitch")
                ELSE NewDevice(ClassOf(d))]
    /\ store = (target :> SetupNodes("RaspiSwitch"))
    /\ reg = [NewRegistry EXCEPT !.server = 1, !.devices = <<target>>]
    /\ threads = [d \in DevNames |-> <<>>]
    /\ now = 1
    /\ NoCalls
    /\ NoLifecycle

NextAuto ==
    \/ \E op \in {"device_start", "device_stop"} : DeviceCall("main", op)
    \/ DeviceSetRunning("main")
    \/ DeviceCreateThread("main")
    \/ DeviceStartThread("main")
    \/ DeviceClearRunning("main")
    \/ DeviceJoin("main")
    \/ \E k \in 1..Len(threads[target]) :
         \/ LoopCheck(target, k)
         \/ LoopSetState(target, k)
         \/ LoopSetTime(target, k)
    \/ Call(TheClient, "opcua_client_toggle_switch")
    \/ GetState(TheClient)
    \/ SetStateNew(TheClient)
    \/ Return(TheClient)

SpecAuto == InitAuto /\ [][NextAuto]_vars

\* ------------------------------------------------ claims on register ops
\* the operations that increment Count
IncrementOps ==
    {"toggle", "press", "press_and_release",
     "press_button", "press_and_release_button", "toggle_switch"}

RECURSIVE SumOver(_, _)
SumOver(f, S) ==
    IF S = {} THEN 0
    ELSE LET o == CHOOSE x \in S : TRUE IN f[o] + SumOver(f, S \ {o})

\* no operation outside S has been invoked
OnlyInvoked(S) == \A o \in OpNames \ S : started[o] = 0

AllIdle == \A p \in Callers : call[p].op = "idle"

Count == store[target].Count

State == store[target].State

\* C1: while the device is running, every step leaves the store's Count at
\* least as high as it was.
C1_CountNeverDecreases ==
    [][(dev[target].running /\ dev'[target].running)
        => store'[target].Count >= store[target].Count]_vars

\* C2: in every state, State and LastStateChange were last written by one
\* and the same transition.
C2_StateAndTimestampTogether ==
    /\ writer.State = writer.LastStateChange
    /\ writer.State = "past" => writer.same

\* C3: on a Button on which only the device's press() has been called, N
\* times, Count is N, and State is true when N >= 1.
C3_PressCountsEachCall ==
    (/\ dev[target].cls = "VirtualButton"
     /\ OnlyInvoked({"press"})
     /\ call[DeviceCaller].op = "idle")
    => /\ Count = completed["press"]
       /\ completed["press"] >= 1 => State = TRUE

C3_Witness ==
    /\ dev[target].cls = "VirtualButton"
    /\ OnlyInvoked({"press"})
    /\ call[DeviceCaller].op = "idle"
    /\ completed["press"] >= 2

\* C4: on a Button on which only the device's press_and_release() has been
\* called, N times, Count is N and State is false once the calls have
\* returned; a call in progress has raised Count by at most one.
C4_PressAndReleaseCountsOnce ==
    (dev[target].cls = "VirtualButton" /\ OnlyInvoked({"press_and_release"}))
    => /\ Count >= completed["press_and_release"]
       /\ Count <= started["press_and_release"]
       /\ call[DeviceCaller].op = "idle"
            => Count = completed["press_and_release"] /\ State = FALSE

C4_Witness ==
    /\ dev[target].cls = "VirtualButton"
    /\ OnlyInvoked({"press_and_release"})
    /\ call[DeviceCaller].op = "idle"
    /\ completed["press_and_release"] >= 2

\* C5: after two consecutive device toggle() calls with no other write to
\* the registers since the first began, State is what it was before the
\* first call and Count is 2 higher than it was before the first call.
C5_ToggleTwice ==
    (call[DeviceCaller].op = "idle" /\ Len(pre) = 2)
    => /\ State = pre[1].State
       /\ Count = pre[1].Count + 2

\* C10: Count never exceeds the number of incrementing operations begun.
C10_CountAtMostStarted == Count <= SumOver(started, IncrementOps)

\* C10: a lost update is reachable: every caller has returned and Count is
\* below the number of incrementing operations completed.
C10_Witness == AllIdle /\ Count < SumOver(completed, IncrementOps)

\* C11: no public client operation lets a failed store access escape: no
\* client call ends with an exception reaching its caller.
C11_ClientNeverRaises == \A p \in Clients : call[p].err # "raised"

\* C12: no device-side operation lets a failed store access, or the access
\* of a device that was never initialized, escape to its caller.
C12_DeviceNeverRaises == call[DeviceCaller].err # "raised"

\* C16: every initialized device has its five declared registers, Type and
\* Virtual hold the configured constants ("Switch" / "Button", true) in
\* every state, and every step of a device or client operation changes
\* registers that were made writable only.
C16_MetadataConstant ==
    /\ [](\A d \in DevNames :
            /\ DOMAIN store[d] = {"State", "LastStateChange", "Count", "Type", "Virtual"}
            /\ store[d].Type = (IF d = "Button1" THEN "Button" ELSE "Switch")
            /\ store[d].Virtual = TRUE)
    /\ [][\A d \in DevNames : \A r \in DOMAIN store[d] :
            store'[d][r] # store[d][r] => r \in Writable]_vars

\* C16: device and client operations have written State, LastStateChange and
\* Count of the Button, and its metadata are in place
C16_Witness ==
    /\ target = "Button1"
    /\ completed["press"] >= 1
    /\ completed["press_button"] >= 1
    /\ store[target].Count >= 1
    /\ store[target].LastStateChange # Empty
    /\ store[target].Type = "Button"
    /\ store[target].Virtual = TRUE

\* the one client is about to return from op
AtReturn(op) == call[TheClient].op = op /\ Instr(TheClient) = "return"

\* C17: on a freshly started Button whose only writer is one client and
\* whose store accesses all succeed, get_count_node returns the number of
\* press_button calls made, and release_button ends with State false and
\* Count still that number.
C17_ClientPressCounts ==
    (/\ dev[target].cls = "VirtualButton"
     /\ faults = 0
     /\ OnlyInvoked({"press_button", "release_button", "get_count_node"}))
    => /\ call[TheClient].op = "idle" => Count = completed["press_button"]
       /\ AtReturn("get_count_node")
            => /\ ~ReturnsNone(TheClient)
               /\ ReturnValue(TheClient) = completed["press_button"]
       /\ AtReturn("release_button")
            => State = FALSE /\ Count = completed["press_button"]

C17_Witness ==
    /\ dev[target].cls = "VirtualButton"
    /\ faults = 0
    /\ OnlyInvoked({"press_button", "release_button", "get_count_node"})
    /\ completed["press_button"] = 2
    /\ AtReturn("get_count_node")
    /\ ReturnValue(TheClient) = 2

\* C18: press_and_release_button is press_button followed by
\* release_button; with one client as the only writer and no failing store
\* access, each call raises Count by one, in its press part, and returns
\* with State false.
C18_ClientPressAndRelease ==
    /\ Program("press_and_release_button")
         = Program("press_button") \o Program("release_button")
    /\ (faults = 0 /\ OnlyInvoked({"press_and_release_button"}))
       => /\ call[TheClient].op = "idle"
               => /\ Count = completed["press_and_release_button"]
                  /\ completed["press_and_release_button"] >= 1 => State = FALSE
          /\ call[TheClient].op = "press_and_release_button"
               => Count = completed["press_and_release_button"]
                            + (IF call[TheClient].pc > Len(press_button) THEN 1 ELSE 0)
          /\ AtReturn("press_and_release_button") => State = FALSE

C18_Witness ==
    /\ faults = 0
    /\ OnlyInvoked({"press_and_release_button"})
    /\ completed["press_and_release_button"] = 1
    /\ AtReturn("press_and_release_button")
    /\ Count = 2
    /\ State = FALSE

\* C19: toggle_switch, called by the one client, hands back None exactly
\* when one of its store accesses failed (and never raises); otherwise it
\* hands back the negation of the State it read, State holds that value and
\* Count is one above the Count it read. When toggle_switch is the only
\* operation called, every call has either failed or raised Count by one.
C19_ToggleSwitchReturn ==
    /\ AtReturn("toggle_switch")
         => IF ReturnsNone(TheClient)
            THEN faults >= 1
            ELSE /\ call[TheClient].err = "none"
                 /\ ReturnValue(TheClient) = ~call[TheClient].cur_state
                 /\ State = ReturnValue(TheClient)
                 /\ Count = call[TheClient].cur_count + 1
    /\ OnlyInvoked({"toggle_switch"})
         => /\ call[TheClient].op = "idle"
                 => Count + faults = completed["toggle_switch"]
            /\ AtReturn("toggle_switch")
                 => Count + faults = completed["toggle_switch"] + 1

\* C19: after a call that failed, a call succeeds and is about to hand back
\* the new state
C19_Witness ==
    /\ OnlyInvoked({"toggle_switch"})
    /\ faults = 1
    /\ completed["toggle_switch"] = 1
    /\ AtReturn("toggle_switch")
    /\ ~ReturnsNone(TheClient)
    /\ State = ReturnValue(TheClient)
    /\ Count = 1

\* ---------------------------------------------------- claims on lifecycle
ContextsIdle == \A c \in Contexts : ctx[c].op = "idle"

NoStopInProgress == \A c \in Contexts : ctx[c].op # "stop"

\* the one start() of the run has started the devices: it sits in its wait
\* loop or has returned
StartDone ==
    /\ hist.regStarts = 1
    /\ \A c \in Contexts : ctx[c].op = "start" => ctx[c].pc = "wait"

AliveThreads(d) == {k \in 1..Len(threads[d]) : Alive(threads[d][k])}

\* C13: the names in the registry's device collection are pairwise
\* distinct.
C13_NamesDistinct ==
    \A i, j \in 1..Len(reg.devices) : i # j => reg.devices[i] # reg.devices[j]

\* C14: with one start() and each device added once, however the stop()
\* calls of the contexts interleave, no device is stopped more than once
\* and the store is torn down at most once.
C14_ConcurrentStopOnce ==
    (/\ hist.regStarts = 1
     /\ \A d \in DevNames : Cardinality({k \in 1..Len(reg.devices) : reg.devices[k] = d}) <= 1)
    => /\ \A d \in DevNames : hist.devStops[d] <= 1
       /\ hist.teardowns <= 1

\* C15: with one start() and each device added once, when a stop() that
\* found the registry running has returned and no stop() is in progress, no
\* device has its running flag set, wherever the start() was interrupted.
C15_StopDuringStart ==
    (/\ hist.regStarts = 1
     /\ \A d \in DevNames : Cardinality({k \in 1..Len(reg.devices) : reg.devices[k] = d}) <= 1
     /\ hist.teardowns >= 1
     /\ NoStopInProgress)
    => \A d \in DevNames : ~dev[d].running

\* C20: when the registry's calls are made one after the other, a store once
\* created is never replaced and no device's registers are lost.
C20_SetupIdempotent ==
    [][(hist.sequential /\ reg.server # 0)
        => /\ reg'.server = reg.server
           /\ \A d \in DOMAIN store : d \in DOMAIN store']_vars

\* C6: when the registry's calls are made one after the other and start()
\* is called at most once, no device is stopped twice, the store is torn
\* down at most once and nothing is raised; stop() without a start() does
\* nothing; and once a stop() after the start() has returned, the store has
\* been torn down once and every started device stopped once, however many
\* stop() calls follow.
C6_StopIdempotent ==
    (hist.sequential /\ hist.regStarts <= 1)
    => /\ \A d \in DevNames : hist.devStops[d] <= 1
       /\ hist.teardowns <= 1
       /\ hist.raised = 0
       /\ hist.regStarts = 0
            => hist.teardowns = 0 /\ \A d \in DevNames : hist.devStops[d] = 0
       /\ (StartDone /\ NoStopInProgress /\ ~reg.running)
            => /\ hist.teardowns = 1
               /\ \A d \in DevNames :
                    hist.devStarts[d] >= 1 => hist.devStops[d] = 1

C6_Witness ==
    /\ hist.sequential
    /\ hist.regStarts = 1
    /\ hist.regStops >= 2
    /\ ContextsIdle
    /\ hist.teardowns = 1
    /\ \E d \in DevNames : hist.devStarts[d] = 1 /\ hist.devStops[d] = 1

C8_AtMostOneTask == \A d \in DevNames : Cardinality(AliveThreads(d)) <= 1

\* C9: a stop() that returns leaves the running flag false, and every
\* stop() returns, whatever its update thread does.
C9_StopAlwaysReturns ==
    /\ [][(ctx["main"].op = "device_stop" /\ ctx'["main"].op = "idle")
           => ~dev'[target].running]_vars
    /\ (ctx["main"].op = "device_stop") ~> (ctx["main"].op = "idle")

\* C9: stop() has returned and the update thread it waited for is alive
C9_Witness ==
    /\ ctx["main"].op = "idle"
    /\ hist.devStops[target] >= 1
    /\ ~dev[target].running
    /\ dev[target].thread \in AliveThreads(target)

\* ------------------------------------------- claims on the registry's order
\* every device has been added once
EachAddedOnce ==
    \A i, j \in 1..Len(reg.devices) : i # j => reg.devices[i] # reg.devices[j]

\* the thread self.thread names has been started
ThreadStarted(d) == dev[d].thread # 0 /\ threads[d][dev[d].thread].pc # "new"

\* this step is the first statement of start() / stop() of the device d
StartsDevice(d) == hist'.devStarts[d] > hist.devStarts[d]

StopsDevice(d) == hist'.devStops[d] > hist.devStops[d]

\* C21: with each device added once and the registry's calls made one after
\* the other, the one start() sets running only once the store is set up and
\* the server started; it starts a device only while running is true, never
\* a second time, after every device added before it has been started and
\* before any device added after it; and it enters its wait loop only when
\* every device of the collection has been started once.
C21_StartOrder ==
    [][(hist.sequential /\ hist.regStarts = 1 /\ EachAddedOnce)
        => /\ (~reg.running /\ reg'.running) => (reg.server # 0 /\ reg.up)
           /\ \A k \in 1..Len(reg.devices) :
                StartsDevice(reg.devices[k])
                => /\ reg.running
                   /\ hist.devStarts[reg.devices[k]] = 0
                   /\ \A j \in 1..Len(reg.devices) :
                        /\ j < k => /\ hist.devStarts[reg.devices[j]] = 1
                                    /\ ThreadStarted(reg.devices[j])
                        /\ j > k => hist.devStarts[reg.devices[j]] = 0
           /\ \A c \in Contexts :
                (ctx[c].op = "start" /\ ctx[c].pc = "loop" /\ ctx'[c].pc = "wait")
                => \A k \in 1..Len(reg.devices) : hist.devStarts[reg.devices[k]] = 1
      ]_vars

\* C21: start() has set the store up itself and started both devices
C21_Witness ==
    /\ hist.sequential
    /\ StartDone
    /\ reg.running
    /\ reg.devices = MainDevices
    /\ \A d \in DevNames : hist.devStarts[d] = 1 /\ dev[d].running /\ ThreadStarted(d)

\* C22: with each device added once and the registry's calls made one after
\* the other, stop() signals a device only once running is false, never a
\* second time, after the stop() of every device added before it has
\* returned and before any device added after it is signalled; and the store
\* is torn down only when every device of the collection has been stopped.
C22_StopOrder ==
    [][(hist.sequential /\ hist.regStarts = 1 /\ EachAddedOnce)
        => /\ \A k \in 1..Len(reg.devices) :
                StopsDevice(reg.devices[k])
                => /\ ~reg.running
                   /\ hist.devStops[reg.devices[k]] = 0
                   /\ \A c \in Contexts : ctx[c].op = "stop" => ctx[c].i = k
                   /\ \A j \in 1..Len(reg.devices) :
                        /\ j < k => hist.devStops[reg.devices[j]] = 1
                        /\ j > k => hist.devStops[reg.devices[j]] = 0
           /\ hist'.teardowns > hist.teardowns
                => /\ ~reg.running
                   /\ \A k \in 1..Len(reg.devices) : hist.devStops[reg.devices[k]] = 1
      ]_vars

\* C22: stop() has stopped both running devices and torn the store down
C22_Witness ==
    /\ hist.sequential
    /\ StartDone
    /\ ContextsIdle
    /\ reg.devices = MainDevices
    /\ hist.teardowns = 1
    /\ \A d \in DevNames :
         hist.devStarts[d] = 1 /\ hist.devStops[d] = 1 /\ ~dev[d].running

\* the add_device call for the device d has returned
AddReturned(d) == \A c \in Contexts : ~(ctx[c].op = "add_device" /\ ctx[c].d = d)

\* C23 as stated: with one start() and each device added once, a device
\* whose add_device began while the registry's running flag was true has its
\* registers once add_device has returned, and is not started.
C23_AddedWhileRunningNotStarted ==
    (hist.regStarts = 1 /\ EachAddedOnce)
    => \A d \in hist.addedRunning :
         /\ AddReturned(d) => d \in DOMAIN store
         /\ ~dev[d].running
         /\ dev[d].thread = 0
         /\ hist.devStarts[d] = 0

\* C23 amended: with one start() and each device added once, a device whose
\* add_device began while start() sat in its wait loop has its registers once
\* add_device has returned, and is not started.
C23_AddedWhileWaitingNotStarted ==
    (hist.regStarts = 1 /\ EachAddedOnce)
    => \A d \in hist.addedWaiting :
         /\ AddReturned(d) => d \in DOMAIN store
         /\ ~dev[d].running
         /\ dev[d].thread = 0
         /\ hist.devStarts[d] = 0

\* C23: one device was started by start(), the other was added afterwards
\* and has its registers
C23_Witness ==
    /\ hist.regStarts = 1
    /\ reg.running
    /\ reg.devices = MainDevices
    /\ hist.addedWaiting = {MainDevices[2]}
    /\ AddReturned(MainDevices[2])
    /\ MainDevices[2] \in DOMAIN store
    /\ dev[MainDevices[1]].running
    /\ ~dev[MainDevices[2]].running

\* ------------------------------------------------ claims on write order
\* the registers the invocation of caller p has written so far, in order
Written(p) ==
    SelectSeq([i \in 1..(call[p].pc - 1) |-> WriteKind(Program(call[p].op)[i])],
              LAMBDA k : k # "none")

\* this step is a store access of caller p
Accesses(p) ==
    /\ Instr(p) \notin {"none", "return"}
    /\ call'[p] # call[p]

C25_ReleaseLeavesCount ==
    [][\A p \in Callers :
         (call[p].op \in {"release", "release_button"} /\ call'[p] # call[p])
         => /\ store'[target].Count = store[target].Count
            /\ dev'[target].count = dev[target].count
            /\ store'[target].Type = store[target].Type
            /\ store'[target].Virtual = store[target].Virtual
            /\ store'[target].State # store[target].State
                 => store'[target].State = FALSE
            /\ \A d \in DevNames \ {target} : store'[d] = store[d]
      ]_vars

\* C25: after a press, a device release() has returned and a client
\* release_button() is about to: the counters still hold the one press
C25_Witness ==
    /\ completed["press"] = 1
    /\ completed["release"] = 1
    /\ AtReturn("release_button")
    /\ Count = 1
    /\ dev[target].count = 1
    /\ State = FALSE

\* ------------------------------------------------ claims on update loops
\* the false-to-true transitions the loops of the target have written
Edges ==
    SumOver([k \in 1..Len(threads[target]) |-> threads[target][k].edges],
            1..Len(threads[target]))

\* the loops that have written a rising edge and not yet the counter
Counting == {k \in 1..Len(threads[target]) : threads[target][k].pc = "count"}

Ticking ==
    {k \in 1..Len(threads[target]) :
       threads[target][k].pc = "set_state" /\ threads'[target][k].pc = "set_time"}

\* C27: every tick of the autonomous switch's loop flips the store's State
\* register -- the value after the tick's write is the negation of the
\* value in the store just before it -- also when a client has written
\* State since the tick before; the tick then writes the timestamp.
C27_TickFlipsStore ==
    [][Ticking # {} => store'[target].State = ~store[target].State]_vars

\* C28: cancellation is cooperative and eventual. While the running flag
\* is false an update loop begins no new iteration, and a loop that polls
\* the flag then exits; under fair scheduling of the threads, once stop()
\* has cleared the flag every update thread of the device terminates unless
\* a later start() sets the flag again -- possibly after stop() has returned.
C28_CooperativeCancellation ==
    /\ [][~dev[target].running =>
            \A k \in 1..Len(threads[target]) :
               /\ threads'[target][k].ticks = threads[target][k].ticks
               /\ (threads[target][k].pc = "check"
                    /\ threads'[target][k] # threads[target][k])
                  => threads'[target][k].pc = "exited"]_vars
    /\ (~dev[target].running)
          ~> (dev[target].running \/ AliveThreads(target) = {})

\* C28: stop() has returned with the flag cleared while a loop is in the
\* middle of an iteration
C28_Witness ==
    /\ ctx["main"].op = "idle"
    /\ hist.devStops[target] >= 1
    /\ ~dev[target].running
    /\ \E k \in 1..Len(threads[target]) :
         /\ threads[target][k].pc = "set_time"
         /\ threads[target][k].ticks >= 1

\* ------------------------------ claims on the manually-triggered devices
\* caller p makes a write access to the store in this step
Writes(p) ==
    /\ WriteKind(Instr(p)) # "none"
    /\ call'[p].op = call[p].op
    /\ call'[p].pc = call[p].pc + 1

\* C29: the update thread of a manually-triggered device writes no
\* register: between start() and stop() a register of the device changes
\* only in a write access of a toggle()/press()/release()/
\* press_and_release() call or of a client's operation, and every step of
\* start(), of stop() and of the update thread leaves the store as it is.
C29_UpdateTaskWritesNothing ==
    [][/\ store' # store => \E p \in Callers : Writes(p)
       /\ (threads' # threads \/ ctx' # ctx) => store' = store]_vars

\* C29: the update thread has run and ended, the device is still running
\* and an operation has changed its registers
C29_Witness ==
    /\ dev[target].running
    /\ dev[target].thread # 0
    /\ threads[target][dev[target].thread].pc = "exited"
    /\ store[target].Count = 1
    /\ AllIdle

\* ------------------------------------- claims on the registry's wait loop
\* C30: start() leaves its wait loop only when the registry's running flag
\* is false, and once a stop() from another context has set the flag to
\* false the wait loop exits and start() returns, under fair scheduling of
\* the thread that waits.
C30_WaitLoopExit ==
    /\ [][(ctx["main"].pc = "wait" /\ ctx'["main"].pc # "wait")
           => ~reg.running]_vars
    /\ (ctx["main"].pc = "wait" /\ ~reg.running) ~> (ctx["main"].op # "start")

\* C30: start() has returned while the stop() of another thread, which has
\* cleared the flag, is still stopping the devices
C30_Witness ==
    /\ ctx["main"].op = "idle"
    /\ ctx["signal"].op = "idle"
    /\ ctx["other"].op = "stop"
    /\ ctx["other"].pc \in {"loop", "dev_clear_running", "dev_join"}
    /\ ~reg.running
    /\ hist.regStops = 1

====
